---- MODULE Spec2Model ----
(***************************************************************************)
(* Model of .github/workflows/generate_dependencies.py (JH-Toolkit):       *)
(* version resolution, FetchContent dependency correlation, manifest       *)
(* assembly and the TOML / badge writers.                                  *)
(*                                                                         *)
(* Texts are sequences of symbols.  A symbol is either a single character  *)
(* class representative (" ", "\n", ")", "(", a digit, ".") or a literal   *)
(* the regular expressions match as a unit ("FetchContent_Declare(",       *)
(* "GIT_TAG", ...).  Every string value of the program (a name, a          *)
(* locator, a version, a rendered file) is a sequence of symbols.          *)
(* A literal matched as a unit loses nothing: what a pattern requires      *)
(* after \w+ is white space or ")", and every literal with a "(" inside    *)
(* belongs to [^\s)] as a whole.                                           *)
(***************************************************************************)
EXTENDS Integers, Sequences, FiniteSets, TLC

\* Number of statements a generated tests/CMakeLists.txt holds at most.
MaxStmts == 3
\* Number of statements a generated root CMakeLists.txt holds at most.
MaxRootStmts == 3

----------------------------------------------------------------------------
(* Character classes of Python's re module, on symbols.                    *)

\* \s
IsSpace(c) == c \in {" ", "\n"}

\* \w : identifier characters; the keywords GIT_REPOSITORY and GIT_TAG are
\* runs of \w characters themselves.
IsWord(c) == c \in {"a", "b", "GIT_REPOSITORY", "GIT_TAG"}

\* [^\s)]
IsTagChar(c) == ~IsSpace(c) /\ c # ")"

\* [\d.]
IsVerChar(c) == c \in {"0", "1", "3", "."}

\* set, PROJECT_VERSION under re.IGNORECASE
IsSetKw(c) == c \in {"set", "SET"}
IsPvKw(c) == c \in {"PROJECT_VERSION", "project_version"}

RECURSIVE SpaceRunEnd(_, _)
\* first position >= i that \s* cannot consume
SpaceRunEnd(s, i) ==
  IF i <= Len(s) /\ IsSpace(s[i]) THEN SpaceRunEnd(s, i + 1) ELSE i

RECURSIVE WordRunEnd(_, _)
\* first position >= i that \w* cannot consume
WordRunEnd(s, i) ==
  IF i <= Len(s) /\ IsWord(s[i]) THEN WordRunEnd(s, i + 1) ELSE i

RECURSIVE TagRunEnd(_, _)
\* first position >= i that [^\s)]* cannot consume
TagRunEnd(s, i) ==
  IF i <= Len(s) /\ IsTagChar(s[i]) THEN TagRunEnd(s, i + 1) ELSE i

RECURSIVE VerRunEnd(_, _)
\* first position >= i that [\d.]* cannot consume
VerRunEnd(s, i) ==
  IF i <= Len(s) /\ IsVerChar(s[i]) THEN VerRunEnd(s, i + 1) ELSE i

At(s, i) == IF i >= 1 /\ i <= Len(s) THEN s[i] ELSE "<eof>"

SetMax(S) == CHOOSE x \in S : \A y \in S : y <= x
SetMin(S) == CHOOSE x \in S : \A y \in S : x <= y

NoMatch == [ok |-> FALSE, end |-> 0, name |-> <<>>, repo |-> <<>>, version |-> <<>>]

----------------------------------------------------------------------------
(* extract_project_version                                                 *)

\* variant of version_pattern compiled without re.IGNORECASE
version_pattern_case_sensitive(s, p) ==
  LET i == SpaceRunEnd(s, p + 1)
      j == SpaceRunEnd(s, i + 1)
      k == SpaceRunEnd(s, j + 1)
      e == VerRunEnd(s, k)
      m == SpaceRunEnd(s, e)
  IN IF /\ At(s, p) = "set"
        /\ At(s, i) = "("
        /\ At(s, j) = "PROJECT_VERSION"
        /\ k > j + 1
        /\ e > k
        /\ At(s, m) = ")"
     THEN [NoMatch EXCEPT !.ok = TRUE, !.end = m + 1, !.version = SubSeq(s, k, e - 1)]
     ELSE NoMatch

\* version_pattern.match at position p:
\*   set\s*\(\s*PROJECT_VERSION\s+([\d.]+)\s*\)   with re.IGNORECASE
\* Each \s* and \s+ takes its whole run of white space and [\d.]+ its whole
\* run of digits and dots: the symbol that must follow is in neither class,
\* so no shorter choice can match.
version_pattern(s, p) ==
  LET i == SpaceRunEnd(s, p + 1)
      j == SpaceRunEnd(s, i + 1)
      k == SpaceRunEnd(s, j + 1)
      e == VerRunEnd(s, k)
      m == SpaceRunEnd(s, e)
  IN IF /\ IsSetKw(At(s, p))
        /\ At(s, i) = "("
        /\ IsPvKw(At(s, j))
        /\ k > j + 1
        /\ e > k
        /\ At(s, m) = ")"
     THEN [NoMatch EXCEPT !.ok = TRUE, !.end = m + 1, !.version = SubSeq(s, k, e - 1)]
     ELSE NoMatch

RECURSIVE version_search(_, _)
\* version_pattern.search(content): the leftmost match, scanning from p
version_search(s, p) ==
  IF p > Len(s) THEN NoMatch
  ELSE LET m == version_pattern(s, p)
       IN IF m.ok THEN m ELSE version_search(s, p + 1)

Unknown == <<"unknown">>

\* the return value of extract_project_version(cmake_path)
extract_project_version(file) ==
  IF ~file.exists THEN Unknown
  ELSE LET m == version_search(file.content, 1)
       IN IF m.ok THEN m.version ELSE Unknown

\* what extract_project_version prints
version_warning(file) ==
  IF file.exists THEN <<>>
  ELSE << <<"Warning: ", "CMakeLists.txt", " not found.">> >>

----------------------------------------------------------------------------
(* extract_fetch_content_dependencies                                      *)

\* fetch_pattern.match at p:  FetchContent_MakeAvailable\((\w+)\)
fetch_pattern(s, p) ==
  LET e == WordRunEnd(s, p + 1)
  IN IF At(s, p) = "FetchContent_MakeAvailable(" /\ e > p + 1 /\ At(s, e) = ")"
     THEN [NoMatch EXCEPT !.ok = TRUE, !.end = e + 1, !.name = SubSeq(s, p + 1, e - 1)]
     ELSE NoMatch

\* the tail  \s+GIT_TAG\s+([^\s)]+)  matches from position e (the first
\* position after the locator capture)
TagFollows(s, e) ==
  LET t == SpaceRunEnd(s, e)
      v == SpaceRunEnd(s, t + 1)
  IN /\ t > e
     /\ At(s, t) = "GIT_TAG"
     /\ v > t + 1
     /\ TagRunEnd(s, v) > v

\* declare_pattern.match at p (re.DOTALL):
\*   FetchContent_Declare\(\s*(\w+)\s+GIT_REPOSITORY\s+(.+?)\s+GIT_TAG\s+([^\s)]+)
\* The \s+ before the locator is greedy (it gives back last), the locator
\* is lazy (the shortest capture the tail accepts) and "." matches every
\* symbol, line breaks and ")" included.
declare_pattern(s, p) ==
  LET n0 == SpaceRunEnd(s, p + 1)
      n1 == WordRunEnd(s, n0)
      g  == SpaceRunEnd(s, n1)
      w  == SpaceRunEnd(s, g + 1)
      Ends(r0) == {e \in (r0 + 1)..Len(s) : TagFollows(s, e)}
      Starts == {r0 \in (g + 2)..w : Ends(r0) # {}}
  IN IF /\ At(s, p) = "FetchContent_Declare("
        /\ n1 > n0
        /\ g > n1
        /\ At(s, g) = "GIT_REPOSITORY"
        /\ w > g + 1
        /\ Starts # {}
     THEN LET r0 == SetMax(Starts)
              r1 == SetMin(Ends(r0))
              t  == SpaceRunEnd(s, r1)
              v0 == SpaceRunEnd(s, t + 1)
              v1 == TagRunEnd(s, v0)
          IN [ok |-> TRUE, end |-> v1, name |-> SubSeq(s, n0, n1 - 1),
              repo |-> SubSeq(s, r0, r1 - 1), version |-> SubSeq(s, v0, v1 - 1)]
     ELSE NoMatch

RECURSIVE declare_finditer(_, _)
\* declare_pattern.finditer(content): the non-overlapping matches, in order
declare_finditer(s, p) ==
  IF p > Len(s) THEN <<>>
  ELSE LET m == declare_pattern(s, p)
       IN IF m.ok THEN <<m>> \o declare_finditer(s, m.end)
                  ELSE declare_finditer(s, p + 1)

RECURSIVE fetch_finditer(_, _)
\* fetch_pattern.finditer(content)
fetch_finditer(s, p) ==
  IF p > Len(s) THEN <<>>
  ELSE LET m == fetch_pattern(s, p)
       IN IF m.ok THEN <<m>> \o fetch_finditer(s, m.end)
                  ELSE fetch_finditer(s, p + 1)

\* one emitted dependency record (lines 47-56): a dict, keys in insertion
\* order, as a sequence of <<key, value>>; a value is a str or a list of str
Str(v) == [kind |-> "str", items |-> <<v>>]
List(l) == [kind |-> "list", items |-> l]

Platforms == << <<"Ubuntu">>, <<"macOS">>, <<"Windows">> >>

FetchInstall ==
  <<"Fetched automatically via CMake FetchContent in Debug and FastDebug builds">>

FetchCondition ==
  <<"Ubuntu/macOS: CMAKE_BUILD_TYPE=Debug or FastDebug.", "\n",
    "Windows (MinGW-UCRT): Fetched in any non-install build (including Release) to ensure stable testing without debug allocators.">>

dependency_record(name, dep) ==
  << <<"name", Str(name)>>,
     <<"platforms", List(Platforms)>>,
     <<"install", Str(FetchInstall)>>,
     <<"version", Str(dep.version)>>,
     <<"condition", Str(FetchCondition)>>,
     <<"fetch_method", Str(<<"FetchContent from GitHub">>)>>,
     <<"repository", Str(dep.repo)>> >>

UnknownDep == [repo |-> Unknown, version |-> Unknown]

NoDeclared == [n \in {} |-> UnknownDep]

RECURSIVE declared_after(_, _, _)
\* the dict `declared` after the first loop ran over matches ms[i..]
declared_after(ms, i, acc) ==
  IF i > Len(ms) THEN acc
  ELSE declared_after(ms, i + 1,
         [n \in (DOMAIN acc) \cup {ms[i].name} |->
            IF n = ms[i].name
            THEN [repo |-> ms[i].repo, version |-> ms[i].version]
            ELSE acc[n]])

\* declared.get(name, {"repo": "unknown", "version": "unknown"})
declared_get(decl, name) ==
  IF name \in DOMAIN decl THEN decl[name] ELSE UnknownDep

\* variant of the second loop that skips a usage without declaration
dependencies_skip_undeclared(decl, ms) ==
  LET keep == SelectSeq(ms, LAMBDA m : m.name \in DOMAIN decl)
  IN [i \in 1..Len(keep) |-> dependency_record(keep[i].name, decl[keep[i].name])]

\* the list `dependencies` after the second loop ran over matches ms
dependencies_of(decl, ms) ==
  [i \in 1..Len(ms) |-> dependency_record(ms[i].name, declared_get(decl, ms[i].name))]

\* `declared` as extract_fetch_content_dependencies leaves it
declared_of(file) ==
  IF ~file.exists THEN NoDeclared
  ELSE declared_after(declare_finditer(file.content, 1), 1, NoDeclared)

\* the return value of extract_fetch_content_dependencies(test_cmake_path)
extract_fetch_content_dependencies(file) ==
  IF ~file.exists THEN <<>>
  ELSE dependencies_of(declared_of(file), fetch_finditer(file.content, 1))

\* what extract_fetch_content_dependencies prints
dependencies_warning(file) ==
  IF file.exists THEN <<>>
  ELSE << <<"Warning: ", "tests/CMakeLists.txt", " not found.">> >>

----------------------------------------------------------------------------
(* main: the manifest                                                      *)

BaselineName == <<"C++20 Standard Library">>

BaselineInstall ==
  <<"Supports GCC 13+ and Clang 15+.", "\n",
    "Recommended compilers: GCC 14.2+ (official Ubuntu builds only; PPA builds are not recommended), 14.3+, or Clang LLVM 20 (stable release).", "\n",
    "Note that LLVM 17/18 provided via Homebrew may not be fully stable and should be avoided in production, similar to the unrecommended GCC PPA builds.">>

PlatformBaseline ==
  << <<"name", Str(BaselineName)>>,
     <<"platforms", List(Platforms)>>,
     <<"install", Str(BaselineInstall)>>,
     <<"version", Str(<<"C++20">>)>> >>

project_of(version) ==
  << <<"name", Str(<<"JH-Toolkit">>)>>,
     <<"version", Str(version)>>,
     <<"description", Str(<<"A cross-platform C++20 toolkit library">>)>>,
     <<"platforms", List(Platforms)>> >>

project_source ==
  << <<"repository", Str(<<"https://github.com/JeongHan-Bae/JH-Toolkit">>)>>,
     <<"download", Str(<<"git clone https://github.com/JeongHan-Bae/JH-Toolkit.git">>)>> >>

NoData == [project |-> <<>>, source |-> <<>>, dependencies |-> <<>>]

\* variant of `data` with the baseline record appended after deps
data_baseline_last(version, deps) ==
  [project |-> project_of(version), source |-> project_source,
   dependencies |-> deps \o <<PlatformBaseline>>]

\* the dict `data` of main (lines 111-132)
data_of(version, deps) ==
  [project |-> project_of(version), source |-> project_source,
   dependencies |-> <<PlatformBaseline>> \o deps]

\* variant of `badge` whose message is a fixed string
badge_fixed_message(version) ==
  << <<"schemaVersion", <<"1">> >>, <<"label", <<"JH-Toolkit">> >>,
     <<"message", Unknown>>, <<"labelColor", <<"#555555">> >>,
     <<"namedLogo", <<"github">> >>, <<"color", <<"#559900">> >>,
     <<"style", <<"flat">> >> >>

\* the dict `badge` of main (lines 142-150)
badge_of(version) ==
  << <<"schemaVersion", <<"1">> >>, <<"label", <<"JH-Toolkit">> >>,
     <<"message", version>>, <<"labelColor", <<"#555555">> >>,
     <<"namedLogo", <<"github">> >>, <<"color", <<"#559900">> >>,
     <<"style", <<"flat">> >> >>

----------------------------------------------------------------------------
(* to_toml                                                                 *)

RECURSIVE Flatten(_, _)
\* sep.join(parts), parts a sequence of symbol sequences
Flatten(parts, sep) ==
  IF parts = <<>> THEN <<>>
  ELSE IF Len(parts) = 1 THEN parts[1]
  ELSE parts[1] \o sep \o Flatten(Tail(parts), sep)

Quoted(v) == <<"\"">> \o v \o <<"\"">>

\* a list value: bracketed, comma-separated quoted scalars (lines 72, 89)
toml_list(items) ==
  <<"[">> \o Flatten([i \in 1..Len(items) |-> Quoted(items[i])], <<", ">>) \o <<"]">>

HasNewline(v) == \E i \in 1..Len(v) : v[i] = "\n"

\* the lines one key of the [project] / [project.source] table becomes
\* (lines 69-75, 80-81)
toml_project_lines(kv) ==
  IF kv[2].kind = "list"
  THEN << <<kv[1], " = ">> \o toml_list(kv[2].items) >>
  ELSE << <<kv[1], " = ">> \o Quoted(kv[2].items[1]) >>

\* the lines one key of a [[dependencies]] table becomes (lines 87-97)
toml_dep_lines(kv) ==
  IF kv[2].kind = "list"
  THEN << <<kv[1], " = ">> \o toml_list(kv[2].items) >>
  ELSE IF HasNewline(kv[2].items[1])
       THEN << <<kv[1], " = ", "'''">>, kv[2].items[1], <<"'''">> >>
       ELSE << <<kv[1], " = ">> \o Quoted(kv[2].items[1]) >>

RECURSIVE toml_table_lines(_, _)
toml_table_lines(kvs, isDep) ==
  IF kvs = <<>> THEN <<>>
  ELSE (IF isDep THEN toml_dep_lines(kvs[1]) ELSE toml_project_lines(kvs[1]))
       \o toml_table_lines(Tail(kvs), isDep)

RECURSIVE toml_dependencies_lines(_)
toml_dependencies_lines(deps) ==
  IF deps = <<>> THEN <<>>
  ELSE << <<"[[dependencies]]">> >> \o toml_table_lines(deps[1], TRUE) \o << <<>> >>
       \o toml_dependencies_lines(Tail(deps))

\* to_toml(data): the lines joined by line breaks (line 100)
to_toml(data) ==
  Flatten(<< <<"[project]">> >> \o toml_table_lines(data.project, FALSE) \o << <<>> >>
          \o << <<"[project.source]">> >> \o toml_table_lines(data.source, FALSE)
          \o << <<>> >>
          \o toml_dependencies_lines(data.dependencies),
          <<"\n">>)

----------------------------------------------------------------------------
(* json.dump(badge, f, indent=2)                                           *)

\* one "key": value member; schemaVersion is a number, the rest are strings
json_member(kv) ==
  <<"  ">> \o Quoted(<<kv[1]>>) \o <<": ">>
  \o (IF kv[1] = "schemaVersion" THEN kv[2] ELSE Quoted(kv[2]))

\* variant: json.dump with sort_keys=True
json_dump_sort_keys(obj) ==
  LET order == <<"color", "label", "labelColor", "message", "namedLogo",
                 "schemaVersion", "style">>
      value(k) == obj[CHOOSE i \in 1..Len(obj) : obj[i][1] = k][2]
  IN <<"{", "\n">>
     \o Flatten([i \in 1..Len(order) |-> json_member(<<order[i], value(order[i])>>)],
                <<",", "\n">>)
     \o <<"\n", "}">>

\* json.dump(badge, f, indent=2): members in insertion order
json_dump(obj) ==
  <<"{", "\n">>
  \o Flatten([i \in 1..Len(obj) |-> json_member(obj[i])], <<",", "\n">>)
  \o <<"\n", "}">>

----------------------------------------------------------------------------
(* The files a run reads                                                   *)

MissingFile == [exists |-> FALSE, content |-> <<>>]
FileOf(text) == [exists |-> TRUE, content |-> text]

\* statements of a tests/CMakeLists.txt: declarations of a and b (on one
\* line, over several lines, with a quoted locator, without GIT_TAG) and
\* uses (of a, of b, and one that is not of the recognised shape)
TestStatements ==
  { <<"FetchContent_Declare(", "a", " ", "GIT_REPOSITORY", " ", "u", " ", "GIT_TAG", " ", "v1", ")", "\n">>,
    <<"FetchContent_Declare(", "\n", " ", "a", "\n", " ", "GIT_REPOSITORY", " ", "w", "\n", " ", "GIT_TAG", " ", "v2", "\n", ")", "\n">>,
    <<"FetchContent_Declare(", "b", " ", "GIT_REPOSITORY", " ", "\"", "u", "\"", " ", "GIT_TAG", " ", "v2", ")", "\n">>,
    <<"FetchContent_Declare(", "b", " ", "GIT_REPOSITORY", " ", "w", ")", "\n">>,
    <<"FetchContent_MakeAvailable(", "a", ")", "\n">>,
    <<"FetchContent_MakeAvailable(", "b", ")", "\n">>,
    <<"FetchContent_MakeAvailable(", " ", "a", " ", "b", ")", "\n">> }

\* statements of a root CMakeLists.txt: version statements (plain, spaced
\* and in lower case), statements that are not of the recognised shape, and
\* two halves of a statement
RootStatements ==
  { <<"set", "(", "PROJECT_VERSION", " ", "1", ".", "3", ".", "0", ")", "\n">>,
    <<"SET", " ", "(", " ", "project_version", "\n", "1", ".", "0", " ", ")", "\n">>,
    <<"set", "(", "PROJECT_VERSION", "1", ".", "0", ")", "\n">>,
    <<"set", "(", "PROJECT_VERSION", " ", "1", ".", "3", "-rc1", ")", "\n">>,
    <<"set", "(", "CMAKE_CXX_STANDARD", " ", "3", ")", "\n">>,
    <<"set", "(", "PROJECT_VERSION", " ">>,
    <<"3", ".", "1", ")", "\n">> }

RECURSIVE Texts(_, _)
\* the texts of at most n statements
Texts(stmts, n) ==
  IF n = 0 THEN {<<>>}
  ELSE LET T == Texts(stmts, n - 1)
       IN T \cup {t \o f : t \in T, f \in stmts}

TestFiles == {MissingFile} \cup {FileOf(t) : t \in Texts(TestStatements, MaxStmts)}
RootFiles == {MissingFile} \cup {FileOf(t) : t \in Texts(RootStatements, MaxRootStmts)}

\* the root files of the runs that go on to generate the manifest
RootSamples ==
  {MissingFile, FileOf(<<"project", "(", "JH-Toolkit", ")", "\n">>),
   FileOf(<<"set", "(", "PROJECT_VERSION", " ", "1", ".", "3", ".", "0", ")", "\n">>)}

\* an output file left by an earlier run
StaleFile == FileOf(<<"stale">>)

----------------------------------------------------------------------------
(* State                                                                   *)

VARIABLES
  cmake_file,        \* CMakeLists.txt
  test_cmake_file,   \* tests/CMakeLists.txt
  dependencies_file, \* dependencies.toml
  badge_file,        \* version_badge.json
  get_version_only,  \* the --get-version flag
  pc,                \* where main is
  version,           \* main's local
  deps,              \* main's local
  declared,          \* the dict extract_fetch_content_dependencies built
  data,              \* main's local
  toml_text,         \* main's local
  badge,             \* main's local
  stdout,            \* the lines printed
  opened_r,          \* the paths opened for reading, in order
  opened_w           \* the paths opened for writing, in order

vars ==
  <<cmake_file, test_cmake_file, dependencies_file, badge_file, get_version_only,
    pc, version, deps, declared, data, toml_text, badge, stdout, opened_r, opened_w>>

files == <<cmake_file, test_cmake_file, get_version_only>>

InitLocals ==
  /\ pc = "start"
  /\ version = <<>>
  /\ deps = <<>>
  /\ declared = NoDeclared
  /\ data = NoData
  /\ toml_text = <<>>
  /\ badge = <<>>
  /\ stdout = <<>>
  /\ opened_r = <<>>
  /\ opened_w = <<>>

Init ==
  /\ cmake_file \in RootSamples
  /\ test_cmake_file \in TestFiles
  /\ \E old \in {MissingFile, StaleFile} :
       dependencies_file = old /\ badge_file = old
  /\ get_version_only \in BOOLEAN
  /\ InitLocals

\* line 104: version = extract_project_version(cmake_file)
ResolveVersion ==
  /\ pc = "start"
  /\ version' = extract_project_version(cmake_file)
  /\ stdout' = stdout \o version_warning(cmake_file)
  /\ opened_r' = Append(opened_r, "CMakeLists.txt")
  /\ pc' = "resolved"
  /\ UNCHANGED <<files, dependencies_file, badge_file, deps, declared, data,
                 toml_text, badge, opened_w>>

\* lines 105-107: print(version); return
PrintVersion ==
  /\ pc = "resolved"
  /\ get_version_only
  /\ stdout' = Append(stdout, version)
  /\ pc' = "done"
  /\ UNCHANGED <<files, dependencies_file, badge_file, version, deps, declared,
                 data, toml_text, badge, opened_r, opened_w>>

\* line 110: deps = extract_fetch_content_dependencies(test_cmake_file)
ExtractDependencies ==
  /\ pc = "resolved"
  /\ ~get_version_only
  /\ declared' = declared_of(test_cmake_file)
  /\ deps' = extract_fetch_content_dependencies(test_cmake_file)
  /\ stdout' = stdout \o dependencies_warning(test_cmake_file)
  /\ opened_r' = Append(opened_r, "tests/CMakeLists.txt")
  /\ pc' = "extracted"
  /\ UNCHANGED <<files, dependencies_file, badge_file, version, data, toml_text,
                 badge, opened_w>>

\* lines 111-134: data = {...}; toml_text = to_toml(data)
BuildManifest ==
  /\ pc = "extracted"
  /\ data' = data_of(version, deps)
  /\ toml_text' = to_toml(data_of(version, deps))
  /\ pc' = "rendered"
  /\ UNCHANGED <<files, dependencies_file, badge_file, version, deps, declared,
                 badge, stdout, opened_r, opened_w>>

\* lines 136-139; open(dependencies_file, "w") raises when the path cannot
\* be written, and the exception ends the run.  The printed lines stand
\* for the confirmation messages of lines 139 and 154.
WriteDependencies ==
  /\ pc = "rendered"
  /\ \/ /\ dependencies_file' = FileOf(toml_text)
        /\ opened_w' = Append(opened_w, "dependencies.toml")
        /\ stdout' = Append(stdout, <<"Generated ", "dependencies.toml">>)
        /\ pc' = "toml_written"
     \/ /\ pc' = "aborted"
        /\ UNCHANGED <<dependencies_file, opened_w, stdout>>
  /\ UNCHANGED <<files, badge_file, version, deps, declared, data, toml_text,
                 badge, opened_r>>

\* lines 141-154
WriteBadge ==
  /\ pc = "toml_written"
  /\ badge' = badge_of(version)
  /\ \/ /\ badge_file' = FileOf(json_dump(badge_of(version)))
        /\ opened_w' = Append(opened_w, "version_badge.json")
        /\ stdout' = Append(stdout, <<"Generated ", "version_badge.json">>)
        /\ pc' = "done"
     \/ /\ pc' = "aborted"
        /\ UNCHANGED <<badge_file, opened_w, stdout>>
  /\ UNCHANGED <<files, dependencies_file, version, deps, declared, data,
                 toml_text, opened_r>>

\* main(get_version_only)
Next ==
  \/ ResolveVersion
  \/ PrintVersion
  \/ ExtractDependencies
  \/ BuildManifest
  \/ WriteDependencies
  \/ WriteBadge

Spec == Init /\ [][Next]_vars

\* extract_project_version alone, on every generated root file
InitVersion ==
  /\ cmake_file \in RootFiles
  /\ test_cmake_file = MissingFile
  /\ dependencies_file = MissingFile
  /\ badge_file = MissingFile
  /\ get_version_only = TRUE
  /\ InitLocals

NextVersion ==
  \/ ResolveVersion
  \/ PrintVersion

SpecVersion == InitVersion /\ [][NextVersion]_vars

----------------------------------------------------------------------------
(* Reference definitions the claims are stated with.  They read the texts  *)
(* statement by statement; none of them runs a pattern of the program.     *)

RECURSIVE Ascending(_)
\* the elements of a finite set of numbers, smallest first
Ascending(S) ==
  IF S = {} THEN <<>> ELSE <<SetMin(S)>> \o Ascending(S \ {SetMin(S)})

AllSpace(s, i, j) == \A k \in i..j : IsSpace(s[k])

\* the first position >= i holding symbol c (0: none)
FirstAt(s, i, c) ==
  IF \E j \in i..Len(s) : s[j] = c
  THEN SetMin({j \in i..Len(s) : s[j] = c})
  ELSE 0

\* a usage statement FetchContent_MakeAvailable(<name>) starts at p
IsUsageAt(s, p) ==
  /\ s[p] = "FetchContent_MakeAvailable("
  /\ \E e \in (p + 2)..Len(s) : s[e] = ")" /\ \A k \in (p + 1)..(e - 1) : IsWord(s[k])

UsagePositions(s) == {p \in 1..Len(s) : IsUsageAt(s, p)}

UsageNameAt(s, p) == SubSeq(s, p + 1, FirstAt(s, p, ")") - 1)

\* the names of the usage statements of a file, in textual order
UsageNames(file) ==
  IF ~file.exists THEN <<>>
  ELSE LET ps == Ascending(UsagePositions(file.content))
       IN [i \in 1..Len(ps) |-> UsageNameAt(file.content, ps[i])]

\* a declaration statement read token by token: the name, GIT_REPOSITORY,
\* one locator token, GIT_TAG, one revision token; a token is a run of
\* symbols other than white space and ")"
DeclarationAt(s, p) ==
  LET n0 == SpaceRunEnd(s, p + 1)
      n1 == WordRunEnd(s, n0)
      g  == SpaceRunEnd(s, n1)
      r0 == SpaceRunEnd(s, g + 1)
      r1 == TagRunEnd(s, r0)
      t  == SpaceRunEnd(s, r1)
      v0 == SpaceRunEnd(s, t + 1)
      v1 == TagRunEnd(s, v0)
  IN IF /\ s[p] = "FetchContent_Declare("
        /\ n1 > n0 /\ g > n1 /\ At(s, g) = "GIT_REPOSITORY"
        /\ r0 > g + 1 /\ r1 > r0
        /\ t > r1 /\ At(s, t) = "GIT_TAG"
        /\ v0 > t + 1 /\ v1 > v0
     THEN [ok |-> TRUE, end |-> v1, name |-> SubSeq(s, n0, n1 - 1),
           repo |-> SubSeq(s, r0, r1 - 1), version |-> SubSeq(s, v0, v1 - 1)]
     ELSE NoMatch

DeclarationPositions(s) == {p \in 1..Len(s) : DeclarationAt(s, p).ok}

DeclarationsOf(s, name) == {p \in DeclarationPositions(s) : DeclarationAt(s, p).name = name}

\* the (repository, revision) pair a name is declared with: that of its
\* textually last declaration statement, the sentinel pair without one
DeclaredPair(s, name) ==
  IF DeclarationsOf(s, name) = {} THEN UnknownDep
  ELSE LET d == DeclarationAt(s, SetMax(DeclarationsOf(s, name)))
       IN [repo |-> d.repo, version |-> d.version]

\* a version statement set(PROJECT_VERSION <token>) starts at p
IsVersionStatementAt(s, p) ==
  /\ IsSetKw(s[p])
  /\ \E i \in (p + 1)..Len(s) :
       /\ s[i] = "(" /\ AllSpace(s, p + 1, i - 1)
       /\ \E j \in (i + 1)..Len(s) :
            /\ IsPvKw(s[j]) /\ AllSpace(s, i + 1, j - 1)
            /\ \E k \in (j + 2)..Len(s) :
                 /\ IsVerChar(s[k]) /\ AllSpace(s, j + 1, k - 1)
                 /\ \E m \in (k + 1)..Len(s) :
                      /\ s[m] = ")"
                      /\ \E e \in k..(m - 1) :
                           /\ \A x \in k..e : IsVerChar(s[x])
                           /\ AllSpace(s, e + 1, m - 1)

VersionStatementPositions(s) == {p \in 1..Len(s) : IsVersionStatementAt(s, p)}

\* the token of the version statement at p: the digits and dots after the
\* keyword, up to the white space or ")" that ends them
VersionTokenAt(s, p) ==
  LET kw == SetMin({j \in p..Len(s) : IsPvKw(s[j])})
      k  == SetMin({x \in (kw + 1)..Len(s) : ~IsSpace(s[x])})
      e  == SetMin({x \in k..Len(s) : ~IsVerChar(s[x])})
  IN SubSeq(s, k, e - 1)

\* the version a root file states
StatedVersion(file) ==
  IF ~file.exists \/ VersionStatementPositions(file.content) = {} THEN Unknown
  ELSE VersionTokenAt(file.content, SetMin(VersionStatementPositions(file.content)))

\* dict lookups
Has(d, k) == \E i \in 1..Len(d) : d[i][1] = k
Get(d, k) == d[CHOOSE i \in 1..Len(d) : d[i][1] = k][2]
Field(d, k) == Get(d, k).items[1]

\* the text between the quote at position q and the next quote
QuotedAt(t, q) == SubSeq(t, q + 1, FirstAt(t, q + 1, "\"") - 1)

LineStart(t, i) == i = 1 \/ t[i - 1] = "\n"

\* the [[dependencies]] headers of a rendered manifest
TablePositions(t) ==
  {h \in 1..Len(t) : t[h] = "[[dependencies]]" /\ LineStart(t, h) /\ At(t, h + 1) = "\n"}

\* the name each [[dependencies]] table of a rendered manifest opens with
TableNames(t) ==
  LET hs == Ascending(TablePositions(t))
  IN [i \in 1..Len(hs) |->
        IF At(t, hs[i] + 2) = "name" /\ At(t, hs[i] + 3) = " = " /\ At(t, hs[i] + 4) = "\""
           /\ FirstAt(t, hs[i] + 5, "\"") # 0
        THEN QuotedAt(t, hs[i] + 4)
        ELSE <<"<no name>">>]

\* the version the [project] table of a rendered manifest gives
TomlProjectVersion(t) ==
  LET ps == {i \in 1..Len(t) : t[i] = "version" /\ LineStart(t, i)
                               /\ At(t, i + 1) = " = " /\ At(t, i + 2) = "\""}
  IN IF ps = {} THEN <<"<no version>">> ELSE QuotedAt(t, SetMin(ps) + 2)

\* the members of a dumped JSON object: the positions of their keys
JsonKeyPositions(t) ==
  {i \in 1..Len(t) : At(t, i - 2) = "  " /\ At(t, i - 1) = "\"" /\ At(t, i + 1) = "\""
                     /\ At(t, i + 2) = ": "}

JsonKeys(t) == LET ps == Ascending(JsonKeyPositions(t)) IN [i \in 1..Len(ps) |-> t[ps[i]]]

\* the string value of member key of a dumped JSON object
JsonString(t, key) ==
  LET ps == {i \in JsonKeyPositions(t) : t[i] = key /\ At(t, i + 3) = "\""}
  IN IF ps = {} THEN <<"<no member>">> ELSE QuotedAt(t, SetMin(ps) + 3)

Count(seq, x) == Cardinality({i \in 1..Len(seq) : seq[i] = x})

Extracted ==
  ~get_version_only /\ pc \in {"extracted", "rendered", "toml_written", "done", "aborted"}
Rendered == ~get_version_only /\ pc \in {"rendered", "toml_written", "done", "aborted"}
NormalDone == pc = "done" /\ ~get_version_only

----------------------------------------------------------------------------
(* Reading a rendered manifest back, by the rules of TOML: a basic string  *)
(* ends at the next quote; a multi-line literal string drops the line      *)
(* break right after its opening delimiter and ends at the next delimiter; *)
(* a key/value pair ends its line; a blank line ends the table.            *)

ParseError == [ok |-> FALSE, val |-> <<>>, next |-> 0]

ParseValue(t, i) ==
  LET c == At(t, i)
      close == FirstAt(t, i + 1, IF c = "[" THEN "]" ELSE c)
  IN IF c \in {"\"", "'''", "["} /\ close # 0
     THEN [ok |-> TRUE,
           val |-> IF c = "'''" /\ At(t, i + 1) = "\n" THEN SubSeq(t, i + 2, close - 1)
                   ELSE SubSeq(t, i + 1, close - 1),
           next |-> close + 1]
     ELSE ParseError

RECURSIVE ParseTable(_, _, _)
\* the key/value pairs of the table whose first key is at i
ParseTable(t, i, acc) ==
  IF At(t, i) \in {"\n", "<eof>"} THEN [ok |-> TRUE, val |-> acc, next |-> i]
  ELSE LET v == ParseValue(t, i + 2)
       IN IF At(t, i + 1) = " = " /\ v.ok /\ At(t, v.next) \in {"\n", "<eof>"}
          THEN ParseTable(t, v.next + 1, Append(acc, <<t[i], v.val>>))
          ELSE ParseError

RECURSIVE ParseDependencies(_, _, _)
\* the [[dependencies]] tables from position i on
ParseDependencies(t, i, acc) ==
  LET hs == {h \in TablePositions(t) : h >= i}
  IN IF hs = {} THEN [ok |-> TRUE, val |-> acc, next |-> i]
     ELSE LET tab == ParseTable(t, SetMin(hs) + 2, <<>>)
          IN IF tab.ok THEN ParseDependencies(t, tab.next, Append(acc, tab.val))
             ELSE ParseError

ParsedGet(tab, k) ==
  IF \E i \in 1..Len(tab) : tab[i][1] = k
  THEN tab[CHOOSE i \in 1..Len(tab) : tab[i][1] = k][2]
  ELSE <<"<no key>">>

RoundTripKeys == {"name", "repository", "version", "condition"}

----------------------------------------------------------------------------
(* Claims                                                                  *)

\* C1: for every usage statement the emitted record carries ("unknown",
\* "unknown") when the text holds no declaration statement for its name, and
\* otherwise the (repository, revision) pair the name is declared with,
\* wherever the declaration stands.
C1_UsageGetsDeclaredPair ==
  (Extracted /\ test_cmake_file.exists) =>
    LET names == UsageNames(test_cmake_file) IN
    \A i \in 1..Len(names) :
      /\ i <= Len(deps)
      /\ Field(deps[i], "name") = names[i]
      /\ Field(deps[i], "repository") = DeclaredPair(test_cmake_file.content, names[i]).repo
      /\ Field(deps[i], "version") = DeclaredPair(test_cmake_file.content, names[i]).version

\* C2: the records extracted, assembled, rendered and written are one per
\* usage statement, in textual order, duplicates kept, whatever the
\* declarations match; the baseline record is the only other entry.
C2_OneRecordPerUsage ==
  /\ Extracted =>
       /\ Len(deps) = Len(UsageNames(test_cmake_file))
       /\ \A i \in 1..Len(deps) : Field(deps[i], "name") = UsageNames(test_cmake_file)[i]
  /\ Rendered =>
       /\ [i \in 1..Len(data.dependencies) |-> Field(data.dependencies[i], "name")]
            = <<BaselineName>> \o UsageNames(test_cmake_file)
       /\ TableNames(toml_text) = <<BaselineName>> \o UsageNames(test_cmake_file)
  /\ pc \in {"toml_written", "done"} /\ ~get_version_only =>
       TableNames(dependencies_file.content) = <<BaselineName>> \o UsageNames(test_cmake_file)

C2_Witness ==
  /\ NormalDone
  /\ Len(deps) = 3
  /\ Field(deps[1], "name") = Field(deps[3], "name")
  /\ Field(deps[1], "name") # Field(deps[2], "name")
  /\ DeclarationPositions(test_cmake_file.content) = {}

\* C3: a name declared by more than one declaration statement is mapped to
\* the pair of its textually last declaration statement, and every usage of
\* the name carries that pair.
C3_LastDeclarationWins ==
  (Extracted /\ test_cmake_file.exists) =>
    LET s == test_cmake_file.content IN
    \A p \in DeclarationPositions(s) :
      LET name == DeclarationAt(s, p).name IN
      Cardinality(DeclarationsOf(s, name)) > 1 =>
        /\ name \in DOMAIN declared
        /\ declared[name] = DeclaredPair(s, name)
        /\ \A i \in 1..Len(deps) :
             Field(deps[i], "name") = name =>
               /\ Field(deps[i], "repository") = DeclaredPair(s, name).repo
               /\ Field(deps[i], "version") = DeclaredPair(s, name).version

\* C4: extract_project_version returns the token of the first version
\* statement of the root text verbatim, and "unknown" when the text has
\* none or the file is missing; the run goes on in every case.
C4_VersionOfFirstStatement ==
  /\ pc # "start" => version = StatedVersion(cmake_file)
  /\ pc # "aborted"

C4_Witness ==
  /\ pc = "resolved"
  /\ cmake_file.exists
  /\ Cardinality(VersionStatementPositions(cmake_file.content)) = 2
  /\ version = <<"1", ".", "0">>
  /\ cmake_file.content[1] = "SET"

\* C5: in every manifest built and rendered, the PlatformBaseline record is
\* present exactly once and is the first entry of the dependencies listing.
C5_BaselineFirstOnce ==
  /\ Rendered =>
       /\ data.dependencies[1] = PlatformBaseline
       /\ Count([i \in 1..Len(data.dependencies) |-> Field(data.dependencies[i], "name")],
                BaselineName) = 1
       /\ TableNames(toml_text)[1] = BaselineName
       /\ Count(TableNames(toml_text), BaselineName) = 1
  /\ pc \in {"toml_written", "done"} /\ ~get_version_only =>
       /\ TableNames(dependencies_file.content)[1] = BaselineName
       /\ Count(TableNames(dependencies_file.content), BaselineName) = 1

C5_Witness ==
  /\ NormalDone
  /\ ~cmake_file.exists
  /\ Len(deps) = 2
  /\ Len(TableNames(dependencies_file.content)) = 3

\* C6: the version is resolved once per run, and the badge's message and
\* the manifest's project.version are both that value, "unknown" included.
C6_VersionSharedOnce ==
  /\ Count(opened_r, "CMakeLists.txt") = (IF pc = "start" THEN 0 ELSE 1)
  /\ Rendered =>
       /\ Field(data.project, "version") = StatedVersion(cmake_file)
       /\ TomlProjectVersion(toml_text) = StatedVersion(cmake_file)
  /\ NormalDone =>
       /\ Get(badge, "message") = Field(data.project, "version")
       /\ JsonString(badge_file.content, "message")
            = TomlProjectVersion(dependencies_file.content)
       /\ JsonString(badge_file.content, "message") = StatedVersion(cmake_file)

C6_Witness ==
  /\ NormalDone
  /\ JsonString(badge_file.content, "message") = <<"1", ".", "3", ".", "0">>
  /\ TomlProjectVersion(dependencies_file.content) = <<"1", ".", "3", ".", "0">>

\* C7: with --get-version set the run reads no secondary file, writes or
\* changes neither output file, and prints the resolved version and
\* nothing else, whether the root file states a version, states none or
\* is missing.
C7_VersionOnlyPrintsVersion ==
  (pc = "done" /\ get_version_only) =>
    /\ stdout = <<version>>
    /\ Count(opened_r, "tests/CMakeLists.txt") = 0
    /\ opened_w = <<>>
    /\ dependencies_file \in {MissingFile, StaleFile}
    /\ badge_file = dependencies_file

\* C8: reading the [[dependencies]] tables of the rendered manifest back
\* recovers, record by record and in order, the name, repository, version
\* and condition that were passed to to_toml.
C8_RoundTrip ==
  Rendered =>
    LET back == ParseDependencies(toml_text, 1, <<>>) IN
    /\ back.ok
    /\ Len(back.val) = Len(data.dependencies)
    /\ \A i \in 1..Len(data.dependencies) : \A k \in RoundTripKeys :
         Has(data.dependencies[i], k) =>
           ParsedGet(back.val[i], k) = Field(data.dependencies[i], k)

\* C9 as stated: a normal run that completes has written three artifacts,
\* a structured-data manifest among them.
C9_ThreeArtifacts ==
  NormalDone => Cardinality({opened_w[i] : i \in 1..Len(opened_w)}) = 3

\* C9 amended: a normal run that completes has written exactly two
\* artifacts, dependencies.toml and then version_badge.json: the flow-style
\* manifest with [project] first, [project.source] next and one
\* [[dependencies]] table per manifest entry in manifest order, and the
\* badge with its seven members in declaration order.
C9_TwoArtifacts ==
  NormalDone =>
    /\ opened_w = <<"dependencies.toml", "version_badge.json">>
    /\ dependencies_file.exists
    /\ dependencies_file.content[1] = "[project]"
    /\ Count(dependencies_file.content, "[project.source]") = 1
    /\ TableNames(dependencies_file.content)
         = [i \in 1..Len(data.dependencies) |-> Field(data.dependencies[i], "name")]
    /\ badge_file.exists
    /\ JsonKeys(badge_file.content)
         = <<"schemaVersion", "label", "message", "labelColor", "namedLogo", "color", "style">>

C9_Witness ==
  /\ NormalDone
  /\ Len(data.dependencies) = 3
  /\ badge_file # StaleFile

\* C10: every triple the declaration pass records is that of one
\* declaration statement (its locator holds no ")"), and every well-formed
\* declaration statement is recorded.
C10_DeclarationsWithinStatement ==
  (Extracted /\ test_cmake_file.exists) =>
    LET s == test_cmake_file.content IN
    /\ \A n \in DOMAIN declared :
         /\ \A i \in 1..Len(declared[n].repo) : declared[n].repo[i] # ")"
         /\ \E p \in DeclarationsOf(s, n) :
              /\ DeclarationAt(s, p).repo = declared[n].repo
              /\ DeclarationAt(s, p).version = declared[n].version
    /\ \A p \in DeclarationPositions(s) : DeclarationAt(s, p).name \in DOMAIN declared

====
